---- MODULE Spec2Model ----
(***************************************************************************)
(* The real-time scoring and ingestion pipeline of                         *)
(* backend/cve_realtime_processor.py: predict_risk, detect_anomaly,        *)
(* fetch_cves_from_nvd and process_new_cves.                               *)
(*                                                                         *)
(* Probabilities are integers in ten-thousandths (7000 is 0.70).  A        *)
(* description is represented by what the fitted artifacts make of it:     *)
(* the classifier's positive-class probability p, the novelty model's      *)
(* label and decision score, and the stage (if any) at which a library     *)
(* call raises on it.                                                      *)
(***************************************************************************)
EXTENDS Integers, Sequences, FiniteSets, TLC

VARIABLES
    clf,            \* module global: the classifier artifact, or None
    vectorizer,     \* module global: the transformer artifact, or None
    anomaly_clf,    \* module global: the novelty model artifact, or None
    feed,           \* the feed's "vulnerabilities" list for the window
    pc,             \* position of the batch call: idle, fetching, scoring, done, failed
    fetched,        \* outcome of fetch_cves_from_nvd in the current call
    cves,           \* process_new_cves: the fetched list
    idx,            \* process_new_cves: loop position (enumerate(cves, 1))
    results,        \* process_new_cves: the accumulation list
    invocations,    \* history: scorer invocations of the current call, in order
    ret,            \* outcome of the current call (a returned list or a raised error)
    history,        \* history: the completed calls, [response, fetched, ret, api_key]
    files,          \* the model files present in the working directory
    server,         \* the API process: not_started, starting, serving, startup_failed
    env_key,        \* the environment variable NVD_API_KEY, or None
    entry,          \* who invoked the current batch call: none, direct, monitor, http
    args,           \* days_back, max_results, api_key of the current batch call
    sent,           \* history: the requests the current call issued to the feed
    response,       \* the last response handed to a caller of the service layer
    dtypes,         \* the types of the values the fitted artifacts return
    clock,          \* what datetime.utcnow() reads: seconds and milliseconds
    calls           \* the batch calls running side by side, by caller

vars == <<clf, vectorizer, anomaly_clf, feed, pc, fetched, cves, idx, results,
          invocations, ret, history, files, server, env_key, entry, args, sent,
          response, dtypes, clock, calls>>

----------------------------------------------------------------------------
(* Bounds of the model *)

MaxItems == 3
MaxCalls == 2
MaxRequests == 1

(* Program constants, in ten-thousandths *)

Scale == 10000
HighThreshold == 7000
MediumThreshold == 4000
OutlierLabel == -1
NormalLabel == 1

Timeout == 30
SecondsPerDay == 86400
DefaultDaysBack == 7
DefaultMaxResults == 20
MinDaysBack == 1
MaxDaysBack == 30
MinMaxResults == 1
MaxMaxResults == 100
MonitorDaysBack == 1
MonitorMaxResults == 100

None == "None"
Loaded == "Loaded"

ModelFiles == {"rf_model.pkl", "tfidf_vectorizer.pkl", "anomaly_model.pkl"}

----------------------------------------------------------------------------
(* Outcomes of a call: a value, or a raised exception *)

Ok(v) == [exc |-> "none", val |-> v]
Raise(e) == [exc |-> e]
Raised(r) == r.exc # "none"
NoRet == [exc |-> "pending"]

----------------------------------------------------------------------------
(* Descriptions *)

\* fault names the library call that raises on the text: none, transform,
\* predict or anomaly
Str(p, label, score, fault) ==
    [kind |-> "str", len |-> 1, p |-> p, label |-> label, score |-> score,
     fault |-> fault]
EmptyStr ==
    [kind |-> "str", len |-> 0, p |-> 0, label |-> NormalLabel, score |-> 0,
     fault |-> "none"]
NoneValue ==
    [kind |-> "none", len |-> 0, p |-> 0, label |-> NormalLabel, score |-> 0,
     fault |-> "none"]

\* Python truthiness of desc_text: None and "" are false
Truthy(v) == v.kind = "str" /\ v.len > 0

----------------------------------------------------------------------------
(* The fitted artifacts, as the library evaluates them on a description *)

\* vectorizer.transform([description]): TRUE when it raises
transform_raises(description) == description.fault = "transform"

\* clf.predict_proba(X)[0][1]
predict_proba(description) == description.p

\* clf.predict(X)[0]: the arg-max class, class 0 on a tie
predict(description) == IF description.p > Scale - description.p THEN 1 ELSE 0

\* anomaly_clf.predict(X)[0]
anomaly_predict(description) == description.label

\* anomaly_clf.decision_function(X)[0]
decision_function(description) == description.score

----------------------------------------------------------------------------
(* The types of values: Python's built-in types and the numeric library's *)

NativeTypes == {"str", "float", "bool", "int"}
FloatWrappers == {"numpy.float64", "numpy.float32"}
IntWrappers == {"numpy.int64", "numpy.int32"}
NumericLibraryTypes == FloatWrappers \cup IntWrappers \cup {"numpy.bool_"}

\* what scikit-learn's fitted models return: float64 probabilities and scores,
\* int64 labels
SklearnTypes ==
    [proba |-> "numpy.float64", class |-> "numpy.int64",
     label |-> "numpy.int64", score |-> "numpy.float64"]

\* variant: float() handing its argument on as it is
py_float_uncast(t) == t

\* variant: bool() handing its argument on as it is
py_bool_uncast(t) == t

\* float(x), int(x), bool(x), str(x): a built-in value whatever x is
py_float(t) == "float"
py_int(t) == "int"
py_bool(t) == "bool"
py_str(t) == "str"

\* a == b: the library's boolean when an operand is a library scalar
py_eq(t1, t2) ==
    IF t1 \in NumericLibraryTypes \/ t2 \in NumericLibraryTypes
    THEN "numpy.bool_" ELSE "bool"

\* a - b on reals: a library scalar when an operand is one
py_sub(t1, t2) ==
    IF t2 \in NumericLibraryTypes THEN t2
    ELSE IF t1 \in NumericLibraryTypes THEN t1
    ELSE "float"

\* the types of the dictionary predict_risk returns, by tier
predict_risk_types(risk) ==
    LET high_risk_probability == py_float(dtypes.proba)
    IN  [risk |-> "str",
         confidence |-> IF risk = "LOW"
                        THEN py_sub("float", high_risk_probability)
                        ELSE high_risk_probability,
         prediction_class |-> py_int(dtypes.class)]

\* the types of the dictionary detect_anomaly returns
detect_anomaly_types ==
    LET anomaly_prediction == dtypes.label
        anomaly_score == py_float(dtypes.score)
        is_anomalous == py_bool(py_eq(anomaly_prediction, "int"))
    IN  [anomalous |-> is_anomalous,
         anomaly_score |-> anomaly_score,
         threshold_info |-> "str"]

\* the types of the output dictionary of one record
output_types(risk) ==
    [cve_id |-> py_str("str"),
     risk |-> py_str(predict_risk_types(risk).risk),
     confidence |-> py_float(predict_risk_types(risk).confidence),
     anomalous |-> py_bool(detect_anomaly_types.anomalous)]

----------------------------------------------------------------------------
(* predict_risk *)

\* variant: thresholds open on the lower bound
risk_level_open(high_risk_probability) ==
    IF high_risk_probability > HighThreshold THEN "HIGH"
    ELSE IF high_risk_probability > MediumThreshold THEN "MEDIUM"
    ELSE "LOW"

risk_level(high_risk_probability) ==
    IF high_risk_probability >= HighThreshold THEN "HIGH"
    ELSE IF high_risk_probability >= MediumThreshold THEN "MEDIUM"
    ELSE "LOW"

\* variant: LOW reports p itself
confidence_of_raw(high_risk_probability) == high_risk_probability

\* variant: the LOW subtraction with its operands swapped
confidence_of_swapped(high_risk_probability) ==
    IF high_risk_probability >= MediumThreshold THEN high_risk_probability
    ELSE high_risk_probability - Scale

confidence_of(high_risk_probability) ==
    IF high_risk_probability >= HighThreshold THEN high_risk_probability
    ELSE IF high_risk_probability >= MediumThreshold THEN high_risk_probability
    ELSE Scale - high_risk_probability

predict_risk(description) ==
    IF clf = None \/ vectorizer = None THEN Raise("ValueError")
    ELSE IF transform_raises(description) THEN Raise("TransformError")
    ELSE IF description.fault = "predict" THEN Raise("PredictError")
    ELSE LET prediction_class == predict(description)
             high_risk_probability == predict_proba(description)
         IN  Ok([risk |-> risk_level(high_risk_probability),
                 confidence |-> confidence_of(high_risk_probability),
                 prediction_class |-> prediction_class])

----------------------------------------------------------------------------
(* predict_input.py: the binary predictor *)

\* f"{probability * 100:.2f}%": whole percents and hundredths of a percent
format_percent(probability) ==
    [percent |-> probability \div 100, hundredths |-> probability % 100]

\* variant: the confidence read from the positive class whatever the prediction
legacy_predict_positive_class(description) ==
    LET prediction == predict(description)
        probability == predict_proba(description)
    IN  [verdict |-> IF prediction = 1 THEN "HIGH" ELSE "LOW",
         prediction |-> prediction,
         probability |-> probability,
         printed |-> format_percent(probability)]

\* the script's prediction, probability and output for a description
legacy_predict(description) ==
    LET prediction == predict(description)
        probability == IF prediction = 1
                       THEN predict_proba(description)
                       ELSE Scale - predict_proba(description)
    IN  [verdict |-> IF prediction = 1 THEN "HIGH" ELSE "LOW",
         prediction |-> prediction,
         probability |-> probability,
         printed |-> format_percent(probability)]

----------------------------------------------------------------------------
(* detect_anomaly *)

\* variant: the flag read from the sign of the decision score
detect_anomaly_by_score(description) ==
    IF anomaly_clf = None \/ vectorizer = None THEN Raise("ValueError")
    ELSE IF transform_raises(description) THEN Raise("TransformError")
    ELSE IF description.fault = "anomaly" THEN Raise("AnomalyError")
    ELSE LET anomaly_score == decision_function(description)
             is_anomalous == (anomaly_score < 0)
             threshold_info == IF is_anomalous
                               THEN "outside historical CVE patterns"
                               ELSE "within normal patterns"
         IN  Ok([anomalous |-> is_anomalous,
                 anomaly_score |-> anomaly_score,
                 threshold_info |-> threshold_info])

\* variant: the decision score weighted by the classifier's probability
detect_anomaly_blended(description) ==
    IF anomaly_clf = None \/ vectorizer = None THEN Raise("ValueError")
    ELSE IF transform_raises(description) THEN Raise("TransformError")
    ELSE IF description.fault = "anomaly" THEN Raise("AnomalyError")
    ELSE LET anomaly_prediction == anomaly_predict(description)
             anomaly_score == decision_function(description)
                                  * predict_proba(description)
             is_anomalous == (anomaly_prediction = OutlierLabel)
             threshold_info == IF is_anomalous
                               THEN "outside historical CVE patterns"
                               ELSE "within normal patterns"
         IN  Ok([anomalous |-> is_anomalous,
                 anomaly_score |-> anomaly_score,
                 threshold_info |-> threshold_info])

detect_anomaly(description) ==
    IF anomaly_clf = None \/ vectorizer = None THEN Raise("ValueError")
    ELSE IF transform_raises(description) THEN Raise("TransformError")
    ELSE IF description.fault = "anomaly" THEN Raise("AnomalyError")
    ELSE LET anomaly_prediction == anomaly_predict(description)
             anomaly_score == decision_function(description)
             is_anomalous == (anomaly_prediction = OutlierLabel)
             threshold_info == IF is_anomalous
                               THEN "outside historical CVE patterns"
                               ELSE "within normal patterns"
         IN  Ok([anomalous |-> is_anomalous,
                 anomaly_score |-> anomaly_score,
                 threshold_info |-> threshold_info])

----------------------------------------------------------------------------
(* fetch_cves_from_nvd: extraction of the response *)

\* variant: every item filed under the default identifier
cve_id_of_default(item) == "Unknown"

\* cve_obj.get("id", "Unknown")
cve_id_of(item) == IF item.has_id THEN item.id ELSE "Unknown"

\* variant: the first en-tagged description that is not empty
desc_text_of_first_nonempty(descriptions) ==
    LET en == SelectSeq(descriptions, LAMBDA d : d.lang = "en")
        filled == SelectSeq(en, LAMBDA d : d.has_value /\ Truthy(d.value))
    IN  IF en = << >> THEN Ok(NoneValue)
        ELSE IF ~en[1].has_value THEN Raise("KeyError")
        ELSE IF filled = << >> THEN Ok(en[1].value)
        ELSE Ok(filled[1].value)

\* variant: next() without its default, raising when no entry is tagged en
desc_text_of_no_default(descriptions) ==
    LET en == SelectSeq(descriptions, LAMBDA d : d.lang = "en")
    IN  IF en = << >> THEN Raise("StopIteration")
        ELSE IF ~en[1].has_value THEN Raise("KeyError")
        ELSE Ok(en[1].value)

\* next((d["value"] for d in descriptions if d.get("lang") == "en"), None)
desc_text_of(descriptions) ==
    LET en == SelectSeq(descriptions, LAMBDA d : d.lang = "en")
    IN  IF en = << >> THEN Ok(NoneValue)
        ELSE IF ~en[1].has_value THEN Raise("KeyError")
        ELSE Ok(en[1].value)

\* variant: each kept record put in front of the ones kept before it
RECURSIVE extracted_cves_prepending(_, _)
extracted_cves_prepending(cve_items, n) ==
    IF n = 0 THEN << >>
    ELSE LET prev == extracted_cves_prepending(cve_items, n - 1)
             item == cve_items[n]
             desc_text == desc_text_of(item.descriptions).val
         IN  IF Truthy(desc_text)
             THEN <<[cve_id |-> cve_id_of(item),
                     description |-> desc_text,
                     src |-> n]>> \o prev
             ELSE prev

\* extracted_cves after the loop has handled the first n items (no item raising)
RECURSIVE extracted_cves(_, _)
extracted_cves(cve_items, n) ==
    IF n = 0 THEN << >>
    ELSE LET prev == extracted_cves(cve_items, n - 1)
             item == cve_items[n]
             desc_text == desc_text_of(item.descriptions).val
         IN  IF Truthy(desc_text)
             THEN Append(prev, [cve_id |-> cve_id_of(item),
                                description |-> desc_text,
                                src |-> n])
             ELSE prev

\* variant: an item whose extraction raises is skipped, the others are kept
extract_skipping(cve_items) ==
    LET sound == SelectSeq(cve_items,
                           LAMBDA item : ~Raised(desc_text_of(item.descriptions)))
    IN  Ok(extracted_cves(sound, Len(sound)))

\* the value fetch_cves_from_nvd returns for a response, or the error it raises
extract(cve_items) ==
    IF \E i \in DOMAIN cve_items : Raised(desc_text_of(cve_items[i].descriptions))
    THEN Raise("KeyError")
    ELSE Ok(extracted_cves(cve_items, Len(cve_items)))

----------------------------------------------------------------------------
(* process_new_cves *)

\* variant: the accumulation list outlives the call
new_results_shared(old) == old

\* results = [] on entering the loop
new_results(old) == << >>

\* the output dictionary of one record
output_of(cve, risk_result, anomaly_result) ==
    [cve_id |-> cve.cve_id,
     risk |-> risk_result.risk,
     confidence |-> risk_result.confidence,
     anomalous |-> anomaly_result.anomalous]

\* the fields an invocation returned, each with its type (none when it raised)
returned_types(fn, out) ==
    IF Raised(out) THEN {}
    ELSE IF fn = "predict_risk"
    THEN LET t == predict_risk_types(out.val.risk)
         IN  {<<"risk", t.risk>>, <<"confidence", t.confidence>>,
              <<"prediction_class", t.prediction_class>>}
    ELSE LET t == detect_anomaly_types
         IN  {<<"anomalous", t.anomalous>>, <<"anomaly_score", t.anomaly_score>>,
              <<"threshold_info", t.threshold_info>>}

Invocation(fn, cve, out) ==
    [fn |-> fn, src |-> cve.src, cve_id |-> cve.cve_id,
     arg |-> cve.description, out |-> out, types |-> returned_types(fn, out)]

\* variant: a failing record discards what was accumulated before it
loop_body_discarding(cve, res, inv) ==
    LET risk_result == predict_risk(cve.description)
        anomaly_result == detect_anomaly(cve.description)
        inv1 == Append(inv, Invocation("predict_risk", cve, risk_result))
        inv2 == Append(inv1, Invocation("detect_anomaly", cve, anomaly_result))
    IN  IF Raised(risk_result) THEN [results |-> << >>, invocations |-> inv1]
        ELSE IF Raised(anomaly_result) THEN [results |-> << >>, invocations |-> inv2]
        ELSE [results |-> Append(res, output_of(cve, risk_result.val,
                                                anomaly_result.val)),
              invocations |-> inv2]

\* variant: a record whose risk scoring raised is attempted a second time
loop_body_retrying(cve, res, inv) ==
    LET risk_result == predict_risk(cve.description)
        anomaly_result == detect_anomaly(cve.description)
        inv1 == Append(inv, Invocation("predict_risk", cve, risk_result))
        inv2 == Append(inv1, Invocation("detect_anomaly", cve, anomaly_result))
    IN  IF Raised(risk_result)
        THEN [results |-> res,
              invocations |-> Append(inv1, Invocation("predict_risk", cve,
                                                      risk_result))]
        ELSE IF Raised(anomaly_result) THEN [results |-> res, invocations |-> inv2]
        ELSE [results |-> Append(res, output_of(cve, risk_result.val,
                                                anomaly_result.val)),
              invocations |-> inv2]

\* variant: the anomaly detector runs first, the risk scorer after it
loop_body_anomaly_first(cve, res, inv) ==
    LET risk_result == predict_risk(cve.description)
        anomaly_result == detect_anomaly(cve.description)
        inv1 == Append(inv, Invocation("detect_anomaly", cve, anomaly_result))
        inv2 == Append(inv1, Invocation("predict_risk", cve, risk_result))
    IN  IF Raised(anomaly_result) THEN [results |-> res, invocations |-> inv1]
        ELSE IF Raised(risk_result) THEN [results |-> res, invocations |-> inv2]
        ELSE [results |-> Append(res, output_of(cve, risk_result.val,
                                                anomaly_result.val)),
              invocations |-> inv2]

\* one iteration of the loop: the results list and the invocations after it
loop_body(cve, res, inv) ==
    LET risk_result == predict_risk(cve.description)
        anomaly_result == detect_anomaly(cve.description)
        inv1 == Append(inv, Invocation("predict_risk", cve, risk_result))
        inv2 == Append(inv1, Invocation("detect_anomaly", cve, anomaly_result))
    IN  IF Raised(risk_result) THEN [results |-> res, invocations |-> inv1]
        ELSE IF Raised(anomaly_result) THEN [results |-> res, invocations |-> inv2]
        ELSE [results |-> Append(res, output_of(cve, risk_result.val,
                                                anomaly_result.val)),
              invocations |-> inv2]

\* variant: the fetch error swallowed, an empty list returned
on_fetch_error_swallowed(e) == Ok(<< >>)

\* variant: an empty fetch reported as an error
on_empty_fetch_raising == Raise("ValueError")

\* what process_new_cves does with an error of fetch_cves_from_nvd: re-raise
on_fetch_error(e) == Raise(e)

\* what process_new_cves does with an empty fetch: return []
on_empty_fetch == Ok(<< >>)

\* the request fetch_cves_from_nvd issues
\* variant: no fallback to the environment
effective_key_no_env(api_key) == api_key

\* api_key falls back to the environment when it is None
effective_key(api_key) == IF api_key = None THEN env_key ELSE api_key

\* Python truthiness of a key: None and "" are false
KeyTruthy(k) == k \notin {None, ""}

headers_of(api_key) ==
    IF KeyTruthy(effective_key(api_key))
    THEN {<<"apiKey", effective_key(api_key)>>}
    ELSE {}

\* a date and time: seconds since the start of the model's calendar and
\* milliseconds within the second
DateTime(sec, ms) == [sec |-> sec, ms |-> ms]

\* start_date = end_date - timedelta(days=days_back)
minus_days(date, days) == DateTime(date.sec - days * SecondsPerDay, date.ms)

\* strftime("%Y-%m-%dT%H:%M:%S.000"): the date to the second, the
\* milliseconds always 000
strftime(date) == DateTime(date.sec, 0)

\* variant: the start of the window computed from a clock reading of its own,
\* a millisecond after the first
start_date_of_second_reading(end_date, days_back) ==
    LET again == IF end_date.ms = 999
                 THEN DateTime(end_date.sec + 1, 0)
                 ELSE DateTime(end_date.sec, end_date.ms + 1)
    IN  minus_days(again, days_back)

start_date_of(end_date, days_back) == minus_days(end_date, days_back)

\* params of the request, from one reading of the clock
params_of(a) ==
    LET end_date == clock
        start_date == start_date_of(end_date, a.days_back)
    IN  [pubStartDate |-> strftime(start_date),
         pubEndDate |-> strftime(end_date),
         resultsPerPage |-> a.max_results]

request_of(a) ==
    [params |-> params_of(a),
     headers |-> headers_of(a.api_key),
     timeout |-> Timeout]

NoResponse == [endpoint |-> "none", status |-> "none"]

\* CVEMonitor._categorize_results
categorize_results(res) ==
    [total |-> Len(res),
     high_risk_count |-> Cardinality({i \in DOMAIN res : res[i].risk = "HIGH"}),
     low_risk_count |-> Cardinality({i \in DOMAIN res : res[i].risk = "LOW"}),
     anomalous_count |-> Cardinality({i \in DOMAIN res : res[i].anomalous}),
     critical_anomalies_count |->
         Cardinality({i \in DOMAIN res : res[i].risk = "HIGH" /\ res[i].anomalous}),
     all_results |-> res]

\* what the caller of process_new_cves hands on, by entry path
respond(e, r) ==
    IF e = "http"
    THEN IF Raised(r)
         THEN [endpoint |-> "/predict/latest-cves", status |-> "502"]
         ELSE [endpoint |-> "/predict/latest-cves", status |-> "200",
               body |-> r.val]
    ELSE IF e = "monitor"
    THEN IF Raised(r)
         THEN [endpoint |-> "fetch_and_analyze", status |-> "raised"]
         ELSE [endpoint |-> "fetch_and_analyze", status |-> "returned",
               body |-> categorize_results(r.val)]
    ELSE NoResponse

\* the handler of POST /predict on a validated request body
predict_endpoint(description) ==
    LET risk_result == predict_risk(description)
        anomaly_result == detect_anomaly(description)
    IN  IF Raised(risk_result) \/ Raised(anomaly_result)
        THEN [endpoint |-> "/predict", status |-> "500", request |-> description]
        ELSE [endpoint |-> "/predict", status |-> "200", request |-> description,
              body |-> [risk |-> risk_result.val.risk,
                        confidence |-> risk_result.val.confidence,
                        anomalous |-> anomaly_result.val.anomalous,
                        anomaly_score |-> anomaly_result.val.anomaly_score]]

\* variant: the upper limits of the query parameters not declared
query_valid_no_upper(days_back, max_results) ==
    days_back >= MinDaysBack /\ max_results >= MinMaxResults

\* Query(ge=1, le=30) and Query(ge=1, le=100) of GET /predict/latest-cves
query_valid(days_back, max_results) ==
    /\ days_back >= MinDaysBack /\ days_back <= MaxDaysBack
    /\ max_results >= MinMaxResults /\ max_results <= MaxMaxResults

\* the fields of the records a call returns, each with its type
record_types(r) ==
    IF Raised(r) THEN {}
    ELSE UNION { LET t == output_types(r.val[i].risk)
                 IN  {<<"cve_id", t.cve_id>>, <<"risk", t.risk>>,
                      <<"confidence", t.confidence>>,
                      <<"anomalous", t.anomalous>>} :
                 i \in DOMAIN r.val }

Finish(f, r) ==
    /\ ret' = r
    /\ pc' = IF Raised(r) THEN "failed" ELSE "done"
    /\ history' = Append(history, [response |-> feed, fetched |-> f, ret |-> r,
                                   api_key |-> args.api_key,
                                   types |-> record_types(r)])
    /\ response' = respond(entry, r)

DefaultArgs ==
    [days_back |-> DefaultDaysBack, max_results |-> DefaultMaxResults,
     api_key |-> None]

\* process_new_cves is entered by path e with arguments a
Begin(e, a) ==
    /\ pc \in {"idle", "done", "failed"}
    /\ pc' = "fetching"
    /\ fetched' = NoRet
    /\ cves' = << >>
    /\ idx' = 0
    /\ invocations' = << >>
    /\ ret' = NoRet
    /\ entry' = e
    /\ args' = a
    /\ sent' = << >>
    /\ response' = NoResponse
    /\ UNCHANGED <<clf, vectorizer, anomaly_clf, feed, results, history, files,
                   server, env_key, dtypes, clock, calls>>

\* a caller invokes process_new_cves() directly
Call == Len(history) < MaxCalls /\ Begin("direct", DefaultArgs)

\* variant: a failed request is retried once before the failure is reported
FetchRequestFailsAfterRetry ==
    /\ pc = "fetching"
    /\ sent' = Append(Append(sent, request_of(args)), request_of(args))
    /\ fetched' = Raise("RequestException")
    /\ Finish(fetched', on_fetch_error("RequestException"))
    /\ UNCHANGED <<clf, vectorizer, anomaly_clf, feed, cves, idx, results,
                   invocations, files, server, env_key, dtypes,
                   clock, calls, entry, args>>

\* requests.get or raise_for_status raises a RequestException
FetchRequestFails ==
    /\ pc = "fetching"
    /\ sent' = Append(sent, request_of(args))
    /\ fetched' = Raise("RequestException")
    /\ Finish(fetched', on_fetch_error("RequestException"))
    /\ UNCHANGED <<clf, vectorizer, anomaly_clf, feed, cves, idx, results,
                   invocations, files, server, env_key, dtypes,
                   clock, calls, entry, args>>

\* the request succeeds and the response is extracted
FetchResponds ==
    /\ pc = "fetching"
    /\ sent' = Append(sent, request_of(args))
    /\ fetched' = extract(feed)
    /\ IF Raised(fetched')
       THEN /\ Finish(fetched', on_fetch_error(fetched'.exc))
            /\ UNCHANGED <<cves, idx, results>>
       ELSE IF fetched'.val = << >>
       THEN /\ cves' = fetched'.val
            /\ Finish(fetched', on_empty_fetch)
            /\ UNCHANGED <<idx, results>>
       ELSE /\ cves' = fetched'.val
            /\ results' = new_results(results)
            /\ idx' = 1
            /\ pc' = "scoring"
            /\ UNCHANGED <<ret, history, response>>
    /\ UNCHANGED <<clf, vectorizer, anomaly_clf, feed, invocations, files, server,
                   env_key, dtypes, clock, calls, entry, args>>

\* variant: an exception of a scorer leaves the loop and ends the call
ScoreRecordPropagating ==
    /\ pc = "scoring"
    /\ idx <= Len(cves)
    /\ LET after == loop_body(cves[idx], results, invocations)
           last == after.invocations[Len(after.invocations)]
       IN  /\ results' = after.results
           /\ invocations' = after.invocations
           /\ IF Raised(last.out)
              THEN Finish(fetched, Raise(last.out.exc))
              ELSE UNCHANGED <<pc, ret, history, response>>
    /\ idx' = idx + 1
    /\ UNCHANGED <<clf, vectorizer, anomaly_clf, feed, fetched, cves, files,
                   server, env_key, dtypes, clock, calls, entry, args, sent>>

\* one iteration of the scoring loop
ScoreRecord ==
    /\ pc = "scoring"
    /\ idx <= Len(cves)
    /\ LET after == loop_body(cves[idx], results, invocations)
       IN  /\ results' = after.results
           /\ invocations' = after.invocations
    /\ idx' = idx + 1
    /\ UNCHANGED <<clf, vectorizer, anomaly_clf, feed, pc, fetched, cves, ret,
                   history, files, server, env_key, dtypes,
                   clock, calls, entry, args, sent, response>>

\* the loop is exhausted: return results
Return ==
    /\ pc = "scoring"
    /\ idx > Len(cves)
    /\ Finish(fetched, Ok(results))
    /\ UNCHANGED <<clf, vectorizer, anomaly_clf, feed, fetched, cves, idx, results,
                   invocations, files, server, env_key, dtypes,
                   clock, calls, entry, args, sent>>

----------------------------------------------------------------------------
(* Calls of process_new_cves running at the same time *)

\* the callers that may run a batch call side by side
Callers == {"a", "b"}

\* variant: the accumulation list is one list of the module, seen by every call
appended_to_every_call(c) == Callers

\* the calls whose accumulation list an append of call c reaches: results is
\* a local of the call
appended_to(c) == {c}

\* call c enters process_new_cves
ConcBegin(c) ==
    /\ calls[c].pc = "idle"
    /\ calls' = [calls EXCEPT ![c].pc = "fetching"]
    /\ UNCHANGED <<clf, vectorizer, anomaly_clf, feed, pc, fetched, cves, idx,
                   results, invocations, ret, history, files, server, env_key,
                   entry, args, sent, response, dtypes, clock>>

\* the request of call c fails: the error is re-raised
ConcFetchFails(c) ==
    /\ calls[c].pc = "fetching"
    /\ calls' = [calls EXCEPT ![c].pc = "failed",
                              ![c].ret = on_fetch_error("RequestException")]
    /\ UNCHANGED <<clf, vectorizer, anomaly_clf, feed, pc, fetched, cves, idx,
                   results, invocations, ret, history, files, server, env_key,
                   entry, args, sent, response, dtypes, clock>>

\* the request of call c is answered with cve_items, which are extracted
ConcFetchResponds(c, cve_items) ==
    /\ calls[c].pc = "fetching"
    /\ LET got == extract(cve_items)
           me == [calls[c] EXCEPT !.response = cve_items]
       IN  calls' =
               [calls EXCEPT ![c] =
                   IF Raised(got)
                   THEN [me EXCEPT !.pc = "failed", !.ret = on_fetch_error(got.exc)]
                   ELSE IF got.val = << >>
                   THEN [me EXCEPT !.pc = "done", !.ret = on_empty_fetch]
                   ELSE [me EXCEPT !.pc = "scoring", !.cves = got.val,
                                   !.results = new_results(me.results),
                                   !.idx = 1]]
    /\ UNCHANGED <<clf, vectorizer, anomaly_clf, feed, pc, fetched, cves, idx,
                   results, invocations, ret, history, files, server, env_key,
                   entry, args, sent, response, dtypes, clock>>

\* one iteration of the scoring loop of call c
ConcScoreRecord(c) ==
    /\ calls[c].pc = "scoring"
    /\ calls[c].idx <= Len(calls[c].cves)
    /\ LET me == calls[c]
           after == loop_body(me.cves[me.idx], me.results, me.invocations)
           appended == SubSeq(after.results, Len(me.results) + 1,
                              Len(after.results))
       IN  calls' =
               [d \in Callers |->
                   IF d = c
                   THEN [me EXCEPT !.results = after.results,
                                   !.invocations = after.invocations,
                                   !.idx = me.idx + 1]
                   ELSE IF d \in appended_to(c)
                   THEN [calls[d] EXCEPT !.results = calls[d].results \o appended]
                   ELSE calls[d]]
    /\ UNCHANGED <<clf, vectorizer, anomaly_clf, feed, pc, fetched, cves, idx,
                   results, invocations, ret, history, files, server, env_key,
                   entry, args, sent, response, dtypes, clock>>

\* the loop of call c is exhausted: return results
ConcReturn(c) ==
    /\ calls[c].pc = "scoring"
    /\ calls[c].idx > Len(calls[c].cves)
    /\ calls' = [calls EXCEPT ![c].pc = "done",
                              ![c].ret = Ok(calls[c].results)]
    /\ UNCHANGED <<clf, vectorizer, anomaly_clf, feed, pc, fetched, cves, idx,
                   results, invocations, ret, history, files, server, env_key,
                   entry, args, sent, response, dtypes, clock>>

----------------------------------------------------------------------------
(* The entry paths: app.py and production_integration.py *)

\* variant: the server starts whatever files are present
startup_event_unchecked == "serving"

\* startup_event: FileNotFoundError when a required file is missing
startup_event == IF ModelFiles \subseteq files THEN "serving" ELSE "startup_failed"

\* the API process starts
Startup ==
    /\ server = "not_started"
    /\ server' = startup_event
    /\ UNCHANGED <<clf, vectorizer, anomaly_clf, feed, pc, fetched, cves, idx,
                   results, invocations, ret, history, files, env_key, entry,
                   args, sent, response, dtypes, clock, calls>>

\* variant: a request finding the artifacts unset loads them again
HttpPredictReloading(description) ==
    /\ server = "serving"
    /\ pc \in {"idle", "done", "failed"}
    /\ response' = predict_endpoint(description)
    /\ clf' = Loaded
    /\ vectorizer' = Loaded
    /\ anomaly_clf' = Loaded
    /\ UNCHANGED <<feed, pc, fetched, cves, idx, results, invocations, ret,
                   history, files, server, env_key, entry, args, sent, dtypes,
                   clock, calls>>

\* POST /predict
HttpPredict(description) ==
    /\ server = "serving"
    /\ pc \in {"idle", "done", "failed"}
    /\ response' = predict_endpoint(description)
    /\ UNCHANGED <<clf, vectorizer, anomaly_clf, feed, pc, fetched, cves, idx,
                   results, invocations, ret, history, files, server, env_key,
                   entry, args, sent, dtypes, clock, calls>>

\* GET /predict/latest-cves: the query is validated, then the handler runs
HttpLatestCves(days_back, max_results) ==
    /\ server = "serving"
    /\ Len(history) < MaxRequests
    /\ LET a == [days_back |-> days_back, max_results |-> max_results,
                 api_key |-> env_key]
       IN  IF query_valid(days_back, max_results)
           THEN Begin("http", a)
           ELSE /\ pc \in {"idle", "done", "failed"}
                /\ entry' = "http"
                /\ args' = a
                /\ sent' = << >>
                /\ invocations' = << >>
                /\ response' = [endpoint |-> "/predict/latest-cves",
                                status |-> "422"]
                /\ UNCHANGED <<clf, vectorizer, anomaly_clf, feed, pc, fetched,
                               cves, idx, results, ret, history, files, server,
                               env_key, dtypes, clock, calls>>

\* health_check: the three files are looked up on disk when it is queried
health_check ==
    LET models_loaded == \A f \in ModelFiles : f \in files
    IN  [endpoint |-> "/health",
         status |-> IF models_loaded THEN "healthy" ELSE "unhealthy",
         models_loaded |-> models_loaded]

\* GET /health
HttpHealth ==
    /\ server = "serving"
    /\ pc \in {"idle", "done", "failed"}
    /\ response' = health_check
    /\ UNCHANGED <<clf, vectorizer, anomaly_clf, feed, pc, fetched, cves, idx,
                   results, invocations, ret, history, files, server, env_key,
                   entry, args, sent, dtypes, clock, calls>>

\* the environment removes a model file from the working directory
RemoveFile(f) ==
    /\ f \in files
    /\ files' = files \ {f}
    /\ UNCHANGED <<clf, vectorizer, anomaly_clf, feed, pc, fetched, cves, idx,
                   results, invocations, ret, history, server, env_key, entry,
                   args, sent, response, dtypes, clock, calls>>

\* CVEMonitor(api_key).fetch_and_analyze(days_back, max_results)
MonitorCall(api_key, days_back, max_results) ==
    /\ Len(history) < MaxRequests
    /\ Begin("monitor", [days_back |-> days_back, max_results |-> max_results,
                         api_key |-> api_key])

\* process_new_cves(days_back, max_results, api_key) called by a script
DirectCall(api_key, days_back, max_results) ==
    /\ Len(history) < MaxRequests
    /\ Begin("direct", [days_back |-> days_back, max_results |-> max_results,
                        api_key |-> api_key])

\* process_new_cves(api_key=...) with the default window
KeyedCall(api_key) ==
    /\ Len(history) < MaxCalls
    /\ Begin("direct", [DefaultArgs EXCEPT !.api_key = api_key])

Next == Call \/ FetchRequestFails \/ FetchResponds \/ ScoreRecord \/ Return

----------------------------------------------------------------------------
(* Inputs *)

En(v) == [lang |-> "en", has_value |-> TRUE, value |-> v]
Es(v) == [lang |-> "es", has_value |-> TRUE, value |-> v]
EnNoValue == [lang |-> "en", has_value |-> FALSE, value |-> NoneValue]

Item(id, descriptions) == [has_id |-> TRUE, id |-> id, descriptions |-> descriptions]
ItemNoId(descriptions) == [has_id |-> FALSE, id |-> "", descriptions |-> descriptions]

THigh == Str(7000, OutlierLabel, -2, "none")
TMedium == Str(4000, NormalLabel, 2, "none")
TLow == Str(3999, NormalLabel, -1, "none")
TPredictFails == Str(6999, NormalLabel, 1, "predict")
TAnomalyFails == Str(10000, OutlierLabel, -1, "anomaly")
TTransformFails == Str(0, NormalLabel, 3, "transform")

BatchItems ==
    { Item("CVE-1", <<En(THigh)>>),
      Item("CVE-2", <<Es(TLow), En(TMedium)>>),
      Item("CVE-3", <<En(TLow)>>),
      Item("CVE-4", <<En(TPredictFails)>>),
      Item("CVE-5", <<En(TAnomalyFails)>>),
      Item("CVE-6", <<Es(THigh)>>),
      Item("CVE-7", <<En(EmptyStr), En(THigh)>>),
      Item("CVE-8", <<EnNoValue>>),
      Item("CVE-9", <<En(TTransformFails)>>),
      ItemNoId(<<En(TLow)>>) }

SeqsUpTo(S, n) == UNION { [1..k -> S] : k \in 0..n }

BatchFeeds == SeqsUpTo(BatchItems, MaxItems)

\* a reading of the clock on day 40 of the model's calendar, at noon
Noon == DateTime(40 * SecondsPerDay + SecondsPerDay \div 2, 0)

\* a caller with no call running
IdleCall ==
    [pc |-> "idle", response |-> << >>, cves |-> << >>, idx |-> 0,
     results |-> << >>, invocations |-> << >>, ret |-> NoRet]

\* the state after import: the present model files, the environment's key and
\* the artifacts' return types are drawn from the given sets; the load succeeds
\* only when every model file is present, and leaves no artifact when it fails
InitAt(feeds, present, keys, types, readings) ==
    /\ clock \in readings
    /\ calls = [c \in Callers |-> IdleCall]
    /\ files \in present
    /\ \E a \in (IF files = ModelFiles THEN {None, Loaded} ELSE {None}) :
          /\ clf = a
          /\ vectorizer = a
          /\ anomaly_clf = a
    /\ feed \in feeds
    /\ pc = "idle"
    /\ fetched = NoRet
    /\ cves = << >>
    /\ idx = 0
    /\ results = << >>
    /\ invocations = << >>
    /\ ret = NoRet
    /\ history = << >>
    /\ server = "not_started"
    /\ env_key \in keys
    /\ entry = "none"
    /\ args = DefaultArgs
    /\ sent = << >>
    /\ response = NoResponse
    /\ dtypes \in types

\* the same, with the clock at one reading
InitOf(feeds, present, keys, types) ==
    InitAt(feeds, present, keys, types, {Noon})

InitWith(feeds) == InitOf(feeds, {ModelFiles}, {None}, {SklearnTypes})

Init == InitWith(BatchFeeds)

Spec == Init /\ [][Next]_vars

\* a call that has begun runs on: the loop and the return are not suspended
FairSpec == Spec /\ WF_vars(ScoreRecord) /\ WF_vars(Return)

\* one record, every probability
AllPFeeds ==
    { <<Item("CVE-1", <<En(Str(p, NormalLabel, 0, "none"))>>)>> : p \in 0..Scale }

InitAllP == InitWith(AllPFeeds)

SpecAllP == InitAllP /\ [][Next]_vars

\* two records, the novelty model's and the classifier's outputs varied independently
PSample == {0, 3999, 4000, 6999, 7000, Scale}
ScoreSample == {-3, 0, 3}
PairTexts ==
    { Str(p, l, s, "none") : p \in PSample, l \in {OutlierLabel, NormalLabel},
                            s \in ScoreSample }
PairFeeds ==
    { <<Item("CVE-1", <<En(a)>>), Item("CVE-2", <<En(b)>>)>> :
        a \in PairTexts, b \in PairTexts }

InitPair == InitWith(PairFeeds)

SpecPair == InitPair /\ [][Next]_vars

----------------------------------------------------------------------------------------------------------------------------------------
(* Inputs: artifacts returning built-in or library types *)

TypeItems ==
    {Item("CVE-1", <<En(THigh)>>), Item("CVE-3", <<En(TLow)>>),
     ItemNoId(<<En(TMedium)>>)}

TypeFeeds == UNION { [1..k -> TypeItems] : k \in 0..2 }

ArtifactTypes ==
    [proba : FloatWrappers \cup {"float"}, class : IntWrappers \cup {"int"},
     label : IntWrappers \cup {"int"}, score : FloatWrappers \cup {"float"}]

InitTypes == InitOf(TypeFeeds, {ModelFiles}, {None}, ArtifactTypes)

SpecTypes == InitTypes /\ [][Next]_vars

----------------------------------------------------------------------------
(* Inputs: the entry paths *)

Keys == {None, "", "key-1"}
EnvKeys == {None, "", "env-key"}

\* window and page size a caller passes: inside the limits, on them, beyond them
QueryInputs == {<<3, 10>>, <<1, 1>>, <<30, 100>>, <<0, 10>>, <<31, 10>>,
                <<3, 0>>, <<3, 101>>}
CallInputs == {<<MonitorDaysBack, MonitorMaxResults>>, <<0, 10>>, <<3, 101>>}

PredictTexts == {THigh, TMedium, TLow, TPredictFails, TAnomalyFails}

ServiceItems ==
    {Item("CVE-1", <<En(THigh)>>), Item("CVE-3", <<En(TLow)>>),
     Item("CVE-4", <<En(TPredictFails)>>)}

ServiceFeeds ==
    {<< >>, <<Item("CVE-8", <<EnNoValue>>)>>} \cup [1..1 -> ServiceItems]
        \cup {<<Item("CVE-4", <<En(TPredictFails)>>), Item("CVE-1", <<En(THigh)>>)>>,
              <<Item("CVE-3", <<En(TLow)>>), Item("CVE-5", <<En(TAnomalyFails)>>)>>}

PresentFiles ==
    {ModelFiles, ModelFiles \ {"anomaly_model.pkl"}, {"rf_model.pkl"}}

InitService == InitOf(ServiceFeeds, PresentFiles, {None, "env-key"}, {SklearnTypes})

NextService ==
    \/ Startup
    \/ \E d \in PredictTexts : HttpPredict(d)
    \/ \E q \in QueryInputs : HttpLatestCves(q[1], q[2])
    \/ \E k \in {None, "key-1"}, q \in CallInputs : MonitorCall(k, q[1], q[2])
    \/ \E k \in {None, "key-1"}, q \in CallInputs : DirectCall(k, q[1], q[2])
    \/ FetchRequestFails
    \/ FetchResponds
    \/ ScoreRecord
    \/ Return

SpecService == InitService /\ [][NextService]_vars

KeyFeeds == [1..1 -> ServiceItems] \cup {<< >>}

InitKeys == InitOf(KeyFeeds, {ModelFiles}, EnvKeys, {SklearnTypes})

NextKeys ==
    \/ \E k \in Keys : KeyedCall(k)
    \/ FetchRequestFails
    \/ FetchResponds
    \/ ScoreRecord
    \/ Return

SpecKeys == InitKeys /\ [][NextKeys]_vars

----------------------------------------------------------------------------
(* Inputs: the request window *)

\* readings of the clock: on the second, within it, at its last millisecond,
\* and in the last second of a day
ClockReadings ==
    {Noon, DateTime(Noon.sec, 1), DateTime(Noon.sec, 999),
     DateTime(41 * SecondsPerDay - 1, 500)}

WindowFeeds == {<< >>, <<Item("CVE-1", <<En(THigh)>>)>>}

InitWindow ==
    InitAt(WindowFeeds, {ModelFiles}, {None}, {SklearnTypes}, ClockReadings)

\* process_new_cves(days_back, max_results) with the parameters in their ranges
WindowCall(days_back, max_results) ==
    /\ Len(history) < MaxRequests
    /\ Begin("direct", [days_back |-> days_back, max_results |-> max_results,
                        api_key |-> None])

NextWindow ==
    \/ \E d \in MinDaysBack..MaxDaysBack,
          m \in {MinMaxResults, DefaultMaxResults, MaxMaxResults} :
          WindowCall(d, m)
    \/ FetchRequestFails
    \/ FetchResponds
    \/ ScoreRecord
    \/ Return

SpecWindow == InitWindow /\ [][NextWindow]_vars

----------------------------------------------------------------------------
(* Inputs: the health endpoint *)

NextHealth ==
    \/ Startup
    \/ HttpHealth
    \/ \E f \in ModelFiles : RemoveFile(f)
    \/ \E d \in PredictTexts : HttpPredict(d)

SpecHealth == InitService /\ [][NextHealth]_vars

----------------------------------------------------------------------------
(* Inputs: two calls at the same time *)

\* what the feed answers to one call: the two calls may get different answers,
\* with or without a record in common
ConcFeeds ==
    {<< >>,
     <<Item("CVE-1", <<En(THigh)>>), Item("CVE-4", <<En(TPredictFails)>>)>>,
     <<Item("CVE-3", <<En(TLow)>>), Item("CVE-2", <<En(TMedium)>>)>>,
     <<Item("CVE-5", <<En(TAnomalyFails)>>), Item("CVE-1", <<En(THigh)>>)>>,
     <<Item("CVE-8", <<EnNoValue>>)>>}

InitConcurrent == InitOf({<< >>}, {ModelFiles}, {None}, {SklearnTypes})

NextConcurrent ==
    \/ \E c \in Callers : ConcBegin(c)
    \/ \E c \in Callers : ConcFetchFails(c)
    \/ \E c \in Callers, cve_items \in ConcFeeds : ConcFetchResponds(c, cve_items)
    \/ \E c \in Callers : ConcScoreRecord(c)
    \/ \E c \in Callers : ConcReturn(c)
    \/ Startup
    \/ \E d \in PredictTexts : HttpPredict(d)

SpecConcurrent == InitConcurrent /\ [][NextConcurrent]_vars

----------------
(* Properties *)

RiskCalls ==
    { i \in DOMAIN invocations :
        invocations[i].fn = "predict_risk" /\ ~Raised(invocations[i].out) }
AnomalyCalls ==
    { i \in DOMAIN invocations :
        invocations[i].fn = "detect_anomaly" /\ ~Raised(invocations[i].out) }

\* C1: the tier predict_risk assigns is a total function of p alone, with
\* p >= 0.70 HIGH, 0.40 <= p < 0.70 MEDIUM, p < 0.40 LOW; exactly one tier for
\* every p; p = 0.70 is HIGH and p = 0.40 is MEDIUM.
C1_TierIsTotalFunctionOfP ==
    \A i \in RiskCalls :
        LET p == invocations[i].arg.p
            tier == invocations[i].out.val.risk
        IN  /\ tier \in {"HIGH", "MEDIUM", "LOW"}
            /\ (p >= 7000) <=> (tier = "HIGH")
            /\ (p >= 4000 /\ p < 7000) <=> (tier = "MEDIUM")
            /\ (p < 4000) <=> (tier = "LOW")
            /\ (p = 7000 => tier = "HIGH")
            /\ (p = 4000 => tier = "MEDIUM")

C1_Witness ==
    \E i \in RiskCalls :
        /\ invocations[i].arg.p = 7000
        /\ invocations[i].out.val.risk = "HIGH"

\* C2: the confidence predict_risk returns is p for HIGH and MEDIUM and 1 - p
\* for LOW; p = 0.6999 gives MEDIUM with 0.6999, p = 0.3999 gives LOW with 0.6001.
C2_ConfidenceInAssignedTier ==
    \A i \in RiskCalls :
        LET p == invocations[i].arg.p
            v == invocations[i].out.val
        IN  /\ v.risk \in {"HIGH", "MEDIUM"} => v.confidence = p
            /\ v.risk = "LOW" => v.confidence = 10000 - p
            /\ p = 6999 => (v.risk = "MEDIUM" /\ v.confidence = 6999)
            /\ p = 3999 => (v.risk = "LOW" /\ v.confidence = 6001)

C2_Witness ==
    \E i \in RiskCalls :
        /\ invocations[i].arg.p = 3999
        /\ invocations[i].out.val.risk = "LOW"
        /\ invocations[i].out.val.confidence = 6001

\* C3: for every p in [0,1] the confidence of every risk verdict and of every
\* scored record the batch call emits lies in [0,1].
C3_ConfidenceInUnitInterval ==
    /\ \A i \in RiskCalls : invocations[i].out.val.confidence \in 0..10000
    /\ \A k \in DOMAIN history :
          ~Raised(history[k].ret) =>
              \A j \in DOMAIN history[k].ret.val :
                  history[k].ret.val[j].confidence \in 0..10000

C3_Witness ==
    /\ pc = "done"
    /\ Len(ret.val) = 1
    /\ ret.val[1].risk = "LOW"
    /\ ret.val[1].confidence = 10000
    /\ \E i \in RiskCalls : invocations[i].arg.p = 0

\* a record whose scoring raises, and the record a successful scoring yields,
\* each taken on its own
ScoringRaises(cve) ==
    Raised(predict_risk(cve.description)) \/ Raised(detect_anomaly(cve.description))
StandaloneRecord(cve) ==
    [cve_id |-> cve.cve_id,
     risk |-> predict_risk(cve.description).val.risk,
     confidence |-> predict_risk(cve.description).val.confidence,
     anomalous |-> detect_anomaly(cve.description).val.anomalous]
RECURSIVE Survivors(_)
Survivors(s) ==
    IF s = << >> THEN << >>
    ELSE IF ScoringRaises(Head(s)) THEN Survivors(Tail(s))
    ELSE <<StandaloneRecord(Head(s))>> \o Survivors(Tail(s))

Failed(r) == r.exc \notin {"none", "pending"}

C5_FetchFailureAborts ==
    Failed(fetched) =>
        /\ pc = "failed"
        /\ ret = Raise(fetched.exc)
        /\ invocations = << >>
        /\ history[Len(history)].ret = Raise(fetched.exc)

C5_Witness ==
    /\ fetched = Raise("RequestException")
    /\ pc = "failed"
    /\ clf = Loaded
    /\ Len(feed) = 2
    /\ ~Raised(extract(feed))
    /\ Len(extract(feed).val) = 2

\* C6: a successful fetch with zero scorable records makes process_new_cves
\* return an empty list normally, with neither scorer invoked.
C6_EmptyFetchReturnsEmpty ==
    fetched = Ok(<< >>) =>
        /\ pc = "done"
        /\ ret = Ok(<< >>)
        /\ invocations = << >>
        /\ history[Len(history)].ret = Ok(<< >>)

C6_Witness ==
    /\ fetched = Ok(<< >>)
    /\ pc = "done"
    /\ Len(feed) = 2
    /\ clf = Loaded

NoEnglish(item) ==
    \A k \in DOMAIN item.descriptions : item.descriptions[k].lang # "en"
EnWithoutValue(item) ==
    \E k \in DOMAIN item.descriptions :
        /\ item.descriptions[k].lang = "en"
        /\ ~item.descriptions[k].has_value
        /\ \A m \in 1..(k - 1) : item.descriptions[m].lang # "en"
UsableEnglish(item) ==
    \E k \in DOMAIN item.descriptions :
        /\ item.descriptions[k].lang = "en"
        /\ item.descriptions[k].has_value
        /\ Truthy(item.descriptions[k].value)
        /\ \A m \in 1..(k - 1) : item.descriptions[m].lang # "en"

\* C7: a feed item with no en-tagged description is dropped without an error:
\* it is absent from the fetch output, the fetch still succeeds for the other
\* items, and neither scorer is invoked for it (nor under its identifier, when
\* no other item of the response carries that identifier).
C7_NoEnglishItemDropped ==
    \A i \in DOMAIN feed :
        NoEnglish(feed[i]) =>
            /\ Failed(fetched) =>
                  \/ fetched.exc = "RequestException"
                  \/ \E j \in DOMAIN feed \ {i} : EnWithoutValue(feed[j])
            /\ fetched.exc = "none" =>
                  /\ \A k \in DOMAIN fetched.val : fetched.val[k].src # i
                  /\ \A j \in DOMAIN feed :
                        UsableEnglish(feed[j]) =>
                            \E k \in DOMAIN fetched.val : fetched.val[k].src = j
            /\ \A k \in DOMAIN invocations : invocations[k].src # i
            /\ (\A j \in DOMAIN feed \ {i} : cve_id_of(feed[j]) # cve_id_of(feed[i]))
                  => \A k \in DOMAIN invocations :
                        invocations[k].cve_id # cve_id_of(feed[i])

C7_Witness ==
    /\ pc = "done"
    /\ Len(feed) = 3
    /\ UsableEnglish(feed[1])
    /\ NoEnglish(feed[2])
    /\ feed[2].descriptions # << >>
    /\ UsableEnglish(feed[3])
    /\ Len(fetched.val) = 2
    /\ Len(ret.val) = 2

\* C8: detect_anomaly reports anomalous exactly when the novelty model's label
\* is the outlier sentinel -1, and its status string is one of two fixed values
\* fixed by anomalous alone, whatever the score.
C8_AnomalousIffOutlierLabel ==
    /\ \A i \in AnomalyCalls :
          LET a == invocations[i].arg
              v == invocations[i].out.val
          IN  /\ v.anomalous <=> (a.label = -1)
              /\ v.threshold_info = IF v.anomalous
                                    THEN "outside historical CVE patterns"
                                    ELSE "within normal patterns"
    /\ \A i, j \in AnomalyCalls :
          (invocations[i].out.val.anomalous = invocations[j].out.val.anomalous)
            <=> (invocations[i].out.val.threshold_info
                   = invocations[j].out.val.threshold_info)

C8_Witness ==
    \E i, j \in AnomalyCalls :
        /\ invocations[i].arg.label = 1
        /\ invocations[j].arg.label = 1
        /\ invocations[i].arg.score < 0
        /\ invocations[j].arg.score > 0
        /\ ~invocations[i].out.val.anomalous
        /\ invocations[i].out.val.threshold_info = "within normal patterns"
        /\ invocations[j].out.val.threshold_info = "within normal patterns"

\* C9: with the novelty model's label and score equal and the classifier's p
\* different, anomalous and anomaly_score are equal and anomaly_score is the
\* decision score itself; with p equal and the novelty model's outputs
\* different, tier and confidence are equal.
C9_VerdictsDoNotInterfere ==
    /\ \A i, j \in AnomalyCalls :
          (/\ invocations[i].arg.label = invocations[j].arg.label
           /\ invocations[i].arg.score = invocations[j].arg.score)
            => /\ invocations[i].out.val.anomalous
                    = invocations[j].out.val.anomalous
               /\ invocations[i].out.val.anomaly_score
                    = invocations[j].out.val.anomaly_score
    /\ \A i \in AnomalyCalls :
          invocations[i].out.val.anomaly_score = invocations[i].arg.score
    /\ \A i, j \in RiskCalls :
          invocations[i].arg.p = invocations[j].arg.p
            => /\ invocations[i].out.val.risk = invocations[j].out.val.risk
               /\ invocations[i].out.val.confidence
                    = invocations[j].out.val.confidence

C9_Witness ==
    \E i, j \in AnomalyCalls :
        /\ invocations[i].arg.label = invocations[j].arg.label
        /\ invocations[i].arg.score = invocations[j].arg.score
        /\ invocations[i].arg.score # 0
        /\ invocations[i].arg.p = 3999
        /\ invocations[j].arg.p = 7000
        /\ invocations[i].out.val.anomaly_score
             = invocations[j].out.val.anomaly_score

\* the response of a completed call was received (the request did not fail)
Received(h) == h.fetched.exc # "RequestException"

\* C10: two calls of process_new_cves that receive the same feed response with
\* the same artifacts return equal lists; nothing the first call wrote
\* influences the second.
C10_BatchDeterminism ==
    \A i, j \in DOMAIN history :
        (/\ Received(history[i])
         /\ Received(history[j])
         /\ history[i].response = history[j].response)
          => history[i].ret = history[j].ret

C10_Witness ==
    /\ Len(history) = 2
    /\ Received(history[1])
    /\ Received(history[2])
    /\ history[1].response = history[2].response
    /\ ~Raised(history[1].ret)
    /\ Len(history[1].ret.val) = 2
    /\ Len(history[1].fetched.val) = 3
    /\ history[2].ret = history[1].ret

----------------------------------------------------------------------------
(* Artifact load failure *)

\* the module-level load left an artifact unset
ArtifactUnavailable == clf = None \/ vectorizer = None \/ anomaly_clf = None

\* a completed call that fetched at least one record
NonEmptyFetch(h) == ~Failed(h.fetched) /\ h.fetched.val # << >>

\* C11: in a process where an artifact failed to load, no batch call over a
\* non-empty fetch completes by returning a result list: the failure is not
\* handled record by record.
C11_ArtifactFailureIsFatal ==
    ArtifactUnavailable =>
        \A i \in DOMAIN history :
            NonEmptyFetch(history[i]) => Failed(history[i].ret)

----------------------------------------------------------------------------
(* Identifiers of the emitted records *)

\* the identifiers of a result list are pairwise distinct
DistinctIdentifiers(res) ==
    \A i, j \in DOMAIN res : i # j => res[i].cve_id # res[j].cve_id

\* every item of the response carries an id, and no id is repeated
FeedIdsDistinct(cve_items) ==
    \A i, j \in DOMAIN cve_items :
        /\ cve_items[i].has_id
        /\ i # j => cve_items[i].id # cve_items[j].id

\* C13 as stated: in every aggregate returned by process_new_cves no two
\* records carry the same identifier, whatever the feed items' ids are.
C13_IdentifiersUnique ==
    \A i \in DOMAIN history :
        ~Failed(history[i].ret) => DistinctIdentifiers(history[i].ret.val)

\* C13 amended: the identifiers of a returned aggregate are pairwise distinct
\* whenever every item of the feed response carries an id and no id is
\* repeated; ids are passed through as they come.
C13_IdentifiersUniqueWhenFeedIdsAre ==
    \A i \in DOMAIN history :
        (~Failed(history[i].ret) /\ FeedIdsDistinct(history[i].response))
            => DistinctIdentifiers(history[i].ret.val)

C13_Witness ==
    \E i \in DOMAIN history :
        /\ ~Failed(history[i].ret)
        /\ FeedIdsDistinct(history[i].response)
        /\ Len(history[i].ret.val) >= 2

----------------------------------------------------------------------------
(* Requests to the feed *)

\* C18: each batch call issues exactly one request to the feed, with an
\* explicit timeout of 30 seconds; a failed request is reported as a fetch
\* failure and is not followed by a second request in the same call.
C18_OneRequestPerCall ==
    /\ \A i \in DOMAIN sent : sent[i].timeout = 30
    /\ pc \in {"idle", "fetching"} => sent = << >>
    /\ pc \in {"scoring", "done", "failed"} => Len(sent) = 1
    /\ (pc = "failed" /\ fetched = Raise("RequestException"))
           => ret = Raise("RequestException")

C18_Witness ==
    /\ pc = "failed"
    /\ fetched = Raise("RequestException")
    /\ Len(sent) = 1
    /\ Len(history) = MaxCalls

----------------------------------------------------------------------------
(* The states of a batch call *)

\* a new call begins: nothing of the previous call is completed by it
NewCall == pc' = "fetching" /\ ret' = NoRet /\ history' = history

\* the transitions of pc a step may take
Transition ==
    /\ pc = "idle" => pc' \in {"idle", "fetching"}
    /\ pc = "fetching" => pc' \in {"fetching", "scoring", "done", "failed"}
    /\ (pc = "fetching" /\ pc' = "scoring") =>
           (~Failed(fetched') /\ fetched' # NoRet /\ fetched'.val # << >>)
    /\ (pc = "fetching" /\ pc' = "done") =>
           (~Failed(fetched') /\ fetched' # NoRet /\ fetched'.val = << >>)
    /\ (pc = "fetching" /\ pc' = "failed") => (Failed(fetched') /\ Failed(ret'))
    /\ pc = "scoring" => pc' \in {"scoring", "done"}
    /\ (pc = "scoring" /\ pc' = "scoring" /\ vars' # vars) =>
           (idx <= Len(cves) /\ idx' = idx + 1)
    /\ (pc = "scoring" /\ pc' = "done") => (idx > Len(cves) /\ ~Failed(ret'))
    /\ pc = "done" => (pc' = "done" \/ NewCall)
    /\ pc = "failed" => (pc' = "failed" \/ NewCall)

----------------------------------------------------------------------------
(* The handling of one record in the loop *)

\* the scorer invocations a step adds to the log
NewInvocations ==
    SubSeq(invocations', Len(invocations) + 1, Len(invocations'))

\* what a step of a scoring call does with the record at idx
RecordStep ==
    LET cve == cves[idx]
        new == NewInvocations
    IN  /\ idx <= Len(cves)
        /\ Len(new) >= 1
        /\ new[1].fn = "predict_risk"
        /\ new[1].src = cve.src
        /\ new[1].arg = cve.description
        /\ IF Raised(new[1].out)
           THEN /\ Len(new) = 1
                /\ results' = results
           ELSE /\ Len(new) = 2
                /\ new[2].fn = "detect_anomaly"
                /\ new[2].src = cve.src
                /\ new[2].arg = cve.description
                /\ IF Raised(new[2].out)
                   THEN results' = results
                   ELSE results' = Append(results, output_of(cve, new[1].out.val,
                                                             new[2].out.val))
        /\ idx' = idx + 1
        /\ pc' = "scoring"

----------------------------------------------------------------------------
(* The types of the values leaving the scoring core *)

\* the built-in type each field is to have
FieldType(field) ==
    CASE field \in {"risk", "threshold_info", "cve_id"} -> "str"
      [] field \in {"confidence", "anomaly_score"} -> "float"
      [] field = "anomalous" -> "bool"
      [] field = "prediction_class" -> "int"

Native(typed_fields) ==
    \A f \in typed_fields : f[2] \in NativeTypes /\ f[2] = FieldType(f[1])

\* C14: whatever types the fitted models return, every field of the
\* dictionaries predict_risk and detect_anomaly return and every field of every
\* record process_new_cves returns has a built-in type: risk a str, confidence
\* and anomaly_score a float, anomalous a bool.
C14_NativeTypesOnly ==
    /\ \A i \in DOMAIN invocations : Native(invocations[i].types)
    /\ \A i \in DOMAIN history : Native(history[i].types)

C14_Witness ==
    /\ dtypes.proba \in FloatWrappers
    /\ dtypes.score \in FloatWrappers
    /\ dtypes.label \in IntWrappers
    /\ pc = "done"
    /\ ~Failed(ret)
    /\ Len(ret.val) = 2
    /\ ret.val[1].risk = "LOW"
    /\ ret.val[2].risk = "HIGH"
    /\ \E i \in DOMAIN history : Cardinality(history[i].types) = 4
    /\ \A i \in DOMAIN invocations : Cardinality(invocations[i].types) = 3

----------------------------------------------------------------------------
(* Batch parameters outside the documented ranges *)

\* days_back in [1,30] and max_results in [1,100]
InRange(a) ==
    /\ a.days_back >= 1 /\ a.days_back <= 30
    /\ a.max_results >= 1 /\ a.max_results <= 100

\* no artifact was used and no request was issued for the current parameters
NothingDone == sent = << >> /\ invocations = << >>

\* C12 as stated: on every entry path, parameters outside the documented
\* ranges are rejected before any artifact is used and before any request is
\* issued.
C12_OutOfRangeRejectedOnEveryPath ==
    ~InRange(args) => (NothingDone /\ pc \notin {"fetching", "scoring"})

\* C12 amended: the HTTP endpoint rejects parameters outside the ranges before
\* any artifact is used and any request is issued; fetch_and_analyze and a
\* direct call do not check them and issue the request with the parameters as
\* given.
C12_OutOfRangeRejectedByEndpointOnly ==
    /\ (entry = "http" /\ ~InRange(args)) =>
           /\ NothingDone
           /\ pc \notin {"fetching", "scoring"}
           /\ response.endpoint = "/predict/latest-cves" => response.status = "422"
    /\ (entry = "http" /\ InRange(args)
           /\ response.endpoint = "/predict/latest-cves") =>
           response.status \in {"200", "502"}
    /\ (entry \in {"monitor", "direct"} /\ pc \in {"scoring", "done", "failed"}) =>
           /\ Len(sent) = 1
           /\ sent[1].params.resultsPerPage = args.max_results
           /\ sent[1].params.pubEndDate.sec - sent[1].params.pubStartDate.sec
                  = args.days_back * 86400

C12_Witness ==
    /\ entry = "http"
    /\ ~InRange(args)
    /\ response.status = "422"
    /\ Len(history) = 0

\* the same parameters reach the feed when the call is made directly
C12_DirectCallWitness ==
    /\ entry = "direct"
    /\ ~InRange(args)
    /\ pc = "done"
    /\ Len(sent) = 1
    /\ Len(invocations) > 0

----------------------------------------------------------------------------
(* Startup of the API process *)

HttpEndpoints == {"/predict", "/predict/latest-cves"}

\* C15: when one of the three model files is absent at process start, startup
\* fails: the process never serves, and no request to /predict or
\* /predict/latest-cves is handled by it.
C15_NoServingWithoutModelFiles ==
    files # ModelFiles =>
        /\ server \in {"not_started", "startup_failed"}
        /\ response.endpoint \notin HttpEndpoints
        /\ entry # "http"

C15_Witness ==
    /\ files # ModelFiles
    /\ files # {}
    /\ server = "startup_failed"

----------------------------------------------------------------------------
(* The responses of the two endpoints *)

\* the call the last batch response answers
LastCall == history[Len(history)]

C17_PredictFailureWitness ==
    /\ response.endpoint = "/predict"
    /\ response.status = "500"
    /\ clf = Loaded

----------------------------------------------------------------------------
(* The feed credential *)

\* the key a call ends up with: the argument, or the environment's when the
\* argument is None
KeyInEffect(h) == IF h.api_key = None THEN env_key ELSE h.api_key

NonEmptyKey(k) == k # None /\ k # ""

\* C16: for the same feed response process_new_cves returns the same list
\* whether a key is supplied, absent or empty; the key decides only whether the
\* single request carries the apiKey header (it does exactly when the key in
\* effect is non-empty); and a call without a key fails only when its fetch
\* fails.
C16_CredentialDoesNotChangeResult ==
    /\ \A i, j \in DOMAIN history :
           (Received(history[i]) /\ Received(history[j])) =>
               history[i].ret = history[j].ret
    /\ \A i \in DOMAIN history :
           Failed(history[i].ret) => Failed(history[i].fetched)
    /\ \A i \in DOMAIN sent :
           LET k == IF args.api_key = None THEN env_key ELSE args.api_key
           IN  sent[i].headers = IF NonEmptyKey(k) THEN {<<"apiKey", k>>} ELSE {}

C16_Witness ==
    /\ Len(history) = 2
    /\ NonEmptyKey(KeyInEffect(history[1]))
    /\ ~NonEmptyKey(KeyInEffect(history[2]))
    /\ ~Failed(history[1].ret)
    /\ ~Failed(history[2].ret)
    /\ Len(history[2].ret.val) = 1
    /\ Len(sent) = 1
    /\ sent[1].headers = {}

----------------------------------------------------------------------------
(* Termination of the loop *)

\* the records the risk scorer was invoked on, in the order of invocation
RiskAttempts ==
    LET attempts == SelectSeq(invocations, LAMBDA v : v.fn = "predict_risk")
    IN  [i \in DOMAIN attempts |-> attempts[i].src]

\* the first n fetched records, in fetch order
FirstFetched(n) == [i \in 1..n |-> cves[i].src]

\* every fetched record was attempted exactly once, in fetch order
EachAttemptedOnce == RiskAttempts = FirstFetched(Len(cves))

----------------------------------------------------------------------------
(* The artifacts after loading *)

ArtifactsUnchanged ==
    clf' = clf /\ vectorizer' = vectorizer /\ anomaly_clf' = anomaly_clf

\* C22: the artifacts are loaded once, at import, and are read-only after it:
\* no single-item call, batch call or fetch, successful or failing, reassigns,
\* refits or reloads the classifier, the transformer or the novelty model.
C22_ArtifactsReadOnly == [][ArtifactsUnchanged /\ dtypes' = dtypes]_vars

C22_Witness ==
    /\ Len(history) = MaxRequests
    /\ Failed(history[1].ret)
    /\ response.endpoint = "/predict"
    /\ response.status = "500"
    /\ ArtifactUnavailable

----------------------------------------------------------------------------
(* What the fetch returns of the response *)

\* the first en-tagged description of an item
FirstEnglish(item) ==
    SelectSeq(item.descriptions, LAMBDA d : d.lang = "en")[1]

\* C24: fetch_cves_from_nvd returns a subsequence of the items of the one
\* response, in response order: the items without a usable English
\* description are removed and nothing replaces them, so at most as many
\* records are returned as the response holds items.
C24_FetchReturnsSubsequence ==
    fetched.exc = "none" =>
        /\ Len(sent) = 1
        /\ Len(fetched.val) <= Len(feed)
        /\ \A k \in DOMAIN fetched.val :
               /\ fetched.val[k].src \in DOMAIN feed
               /\ fetched.val[k].cve_id = cve_id_of(feed[fetched.val[k].src])
               /\ fetched.val[k].description
                      = FirstEnglish(feed[fetched.val[k].src]).value
               /\ \A m \in DOMAIN fetched.val :
                      k < m => fetched.val[k].src < fetched.val[m].src
        /\ {fetched.val[k].src : k \in DOMAIN fetched.val}
               = {i \in DOMAIN feed : UsableEnglish(feed[i])}

C24_Witness ==
    /\ fetched.exc = "none"
    /\ Len(feed) = 3
    /\ ~UsableEnglish(feed[1])
    /\ Len(fetched.val) = 2
    /\ fetched.val[1].src = 2
    /\ fetched.val[2].src = 3
    /\ fetched.val[1].cve_id # fetched.val[2].cve_id

----------------------------------------------------------------------------
(* The range of the confidence, by tier *)

\* C27: the confidence predict_risk reports is never below 0.40: it lies in
\* [0.70, 1] for HIGH, in [0.40, 0.70) for MEDIUM and in (0.60, 1] for LOW; a
\* confidence in [0.40, 0.60] comes only with MEDIUM; and the same confidence
\* comes with more than one tier.
C27_ConfidenceAtLeastMedium ==
    /\ \A i \in RiskCalls :
           LET v == invocations[i].out.val
           IN  /\ v.confidence >= 4000
               /\ v.risk = "HIGH" => (v.confidence >= 7000 /\ v.confidence <= 10000)
               /\ v.risk = "MEDIUM" => (v.confidence >= 4000 /\ v.confidence < 7000)
               /\ v.risk = "LOW" => (v.confidence > 6000 /\ v.confidence <= 10000)
               /\ (v.confidence >= 4000 /\ v.confidence <= 6000) => v.risk = "MEDIUM"
    /\ confidence_of(8000) = confidence_of(2000)
    /\ risk_level(8000) # risk_level(2000)
    /\ confidence_of(6500) = confidence_of(3500)
    /\ risk_level(6500) # risk_level(3500)

C27_Witness ==
    \E i \in RiskCalls :
        /\ invocations[i].arg.p = 2000
        /\ invocations[i].out.val.risk = "LOW"
        /\ invocations[i].out.val.confidence = 8000

----------------------------------------------------------------------------
(* An error while extracting an item of the response *)

\* the response holds an item whose first en-tagged description has no value
ExtractionRaises(cve_items) ==
    \E i \in DOMAIN cve_items : EnWithoutValue(cve_items[i])

\* C28: an error raised while extracting one item of the response is not
\* isolated to that item: it leaves fetch_cves_from_nvd and process_new_cves,
\* the whole call fails, and no record of that response is scored or returned.
C28_ExtractionErrorFailsTheCall ==
    /\ \A i \in DOMAIN history :
           (Received(history[i]) /\ ExtractionRaises(history[i].response)) =>
               /\ history[i].fetched = Raise("KeyError")
               /\ history[i].ret = Raise("KeyError")
    /\ (fetched.exc = "none" /\ pc \in {"scoring", "done"}) => ~ExtractionRaises(feed)
    /\ fetched.exc = "KeyError" =>
           (pc = "failed" /\ invocations = << >> /\ cves = << >>)

C28_Witness ==
    /\ pc = "failed"
    /\ ret = Raise("KeyError")
    /\ Len(feed) = 3
    /\ UsableEnglish(feed[1])
    /\ EnWithoutValue(feed[2])
    /\ UsableEnglish(feed[3])
    /\ invocations = << >>

----------------------------------------------------------------------------
(* An empty first English description *)

\* the first en-tagged description of the item is the empty string
FirstEnglishEmpty(item) ==
    /\ ~NoEnglish(item)
    /\ FirstEnglish(item).has_value
    /\ ~Truthy(FirstEnglish(item).value)

\* a later en-tagged description of the item is not empty
LaterEnglishFilled(item) ==
    LET en == SelectSeq(item.descriptions, LAMBDA d : d.lang = "en")
    IN  \E k \in 2..Len(en) : en[k].has_value /\ Truthy(en[k].value)

\* C29: only the first en-tagged description of an item counts, and an empty
\* one counts as missing: the item is dropped like one with no English
\* description, even when a later en-tagged entry is not empty; every record
\* that reaches the scorers has a non-empty description.
C29_EmptyFirstEnglishDropped ==
    /\ fetched.exc = "none" =>
           /\ \A i \in DOMAIN feed :
                  (FirstEnglishEmpty(feed[i]) \/ NoEnglish(feed[i])) =>
                      \A k \in DOMAIN fetched.val : fetched.val[k].src # i
           /\ \A k \in DOMAIN fetched.val :
                  /\ Truthy(fetched.val[k].description)
                  /\ fetched.val[k].description
                         = FirstEnglish(feed[fetched.val[k].src]).value
    /\ \A i \in DOMAIN invocations : Truthy(invocations[i].arg)

C29_Witness ==
    /\ pc = "done"
    /\ Len(feed) = 2
    /\ FirstEnglishEmpty(feed[1])
    /\ LaterEnglishFilled(feed[1])
    /\ UsableEnglish(feed[2])
    /\ Len(fetched.val) = 1
    /\ fetched.val[1].src = 2
    /\ Len(invocations) = 2

----------------------------------------------------------------------------
(* The three-tier scorer and the binary predictor *)

\* the two agree on a description: same verdict, same confidence, and the
\* same confidence printed
Agree(v, legacy) ==
    /\ legacy.verdict = v.risk
    /\ legacy.probability = v.confidence
    /\ legacy.printed = format_percent(v.confidence)

\* C30: with the predicted class the arg-max of the two class probabilities,
\* whenever predict_risk assigns HIGH the binary predictor reports HIGH with
\* the same confidence p and prediction_class is 1; whenever it assigns LOW
\* the binary predictor reports LOW with the same confidence 1 - p and
\* prediction_class is 0; they differ only for p in [0.40, 0.70).
C30_RefinesLegacyOutsideMedium ==
    \A i \in RiskCalls :
        LET p == invocations[i].arg.p
            v == invocations[i].out.val
            legacy == legacy_predict(invocations[i].arg)
        IN  /\ v.risk = "HIGH" =>
                   (Agree(v, legacy) /\ v.confidence = p /\ v.prediction_class = 1)
            /\ v.risk = "LOW" =>
                   (Agree(v, legacy) /\ v.confidence = 10000 - p
                       /\ v.prediction_class = 0)
            /\ ~Agree(v, legacy) => (p >= 4000 /\ p < 7000)
            /\ v.prediction_class = legacy.prediction

C30_Witness ==
    \E i \in RiskCalls :
        /\ invocations[i].arg.p = 3999
        /\ invocations[i].out.val.risk = "LOW"
        /\ legacy_predict(invocations[i].arg).verdict = "LOW"
        /\ legacy_predict(invocations[i].arg).probability = 6001

\* inside the band the two differ
C30_MediumDiffersWitness ==
    \E i \in RiskCalls :
        /\ invocations[i].arg.p = 4000
        /\ invocations[i].out.val.risk = "MEDIUM"
        /\ invocations[i].out.val.confidence = 4000
        /\ legacy_predict(invocations[i].arg).verdict = "LOW"
        /\ legacy_predict(invocations[i].arg).probability = 6000

----------------------------------------------------------------------------
(* The request window *)

\* the length of the requested window, in seconds
WindowSeconds(params) == params.pubEndDate.sec - params.pubStartDate.sec

\* C25 as stated: pubEndDate is the clock reading itself, pubStartDate is
\* exactly days_back days before it, and resultsPerPage is max_results.
C25_WindowEndsAtTheReading ==
    \A i \in DOMAIN sent :
        /\ sent[i].params.pubEndDate = clock
        /\ sent[i].params.pubStartDate
               = DateTime(clock.sec - args.days_back * 86400, clock.ms)
        /\ sent[i].params.resultsPerPage = args.max_results

\* C25 amended: both ends of the window come from one reading of the clock,
\* cut to the whole second (the milliseconds sent are always 000): pubEndDate
\* is the second of the reading, pubStartDate is exactly days_back days before
\* pubEndDate, so pubStartDate <= pubEndDate and the window is exactly
\* days_back days long for every days_back in [1,30]; resultsPerPage is
\* max_results.
C25_WindowOfWholeSeconds ==
    \A i \in DOMAIN sent :
        LET params == sent[i].params
        IN  /\ params.pubEndDate = DateTime(clock.sec, 0)
            /\ params.pubStartDate.ms = 0
            /\ WindowSeconds(params) = args.days_back * 86400
            /\ params.pubStartDate.sec <= params.pubEndDate.sec
            /\ params.pubEndDate.sec <= clock.sec
            /\ clock.sec - params.pubEndDate.sec < 1
            /\ params.resultsPerPage = args.max_results

C25_Witness ==
    /\ Len(sent) = 1
    /\ clock.ms = 999
    /\ args.days_back = 30
    /\ args.max_results = 100
    /\ sent[1].params.pubEndDate # clock
    /\ WindowSeconds(sent[1].params) = 2592000

----------------------------------------------------------------------------
(* The health endpoint *)

ModelsLoaded == clf = Loaded /\ vectorizer = Loaded /\ anomaly_clf = Loaded

\* C26: an answer of /health reports status "healthy" and models_loaded = true
\* if and only if all models are loaded in the serving process. The artifacts
\* never change after the load, so the last answer is compared with them
\* as they are.
C26_HealthReportsLoadedModels ==
    response.endpoint = "/health" =>
        /\ (response.status = "healthy") <=> ModelsLoaded
        /\ response.models_loaded <=> ModelsLoaded

\* the two cases of C26: the files exist but the load failed, and a file was
\* removed after the models were loaded
C26_FailedLoadReportedHealthy ==
    /\ response.endpoint = "/health"
    /\ response.status = "healthy"
    /\ files = ModelFiles
    /\ ~ModelsLoaded

C26_LoadedReportedUnhealthy ==
    /\ response.endpoint = "/health"
    /\ response.status = "unhealthy"
    /\ files # ModelFiles
    /\ ModelsLoaded

----------------------------------------------------------------------------
(* Calls at the same time *)

\* the records of a call's own fetch
OwnFetch(c) == extract(calls[c].response).val

\* C23: however two batch calls and single-item calls are interleaved, the
\* accumulation list of each call holds, at every step of its loop, exactly
\* the successfully scored records among those of its own fetch it has gone
\* through, in its own fetch order, and the list it returns holds exactly the
\* successfully scored records of its own fetch: no record of the other call
\* ever appears in it.
C23_CallsShareNoBuffer ==
    \A c \in Callers :
        LET me == calls[c]
        IN  /\ me.pc = "scoring" =>
                   /\ me.cves = OwnFetch(c)
                   /\ me.results = Survivors(SubSeq(me.cves, 1, me.idx - 1))
            /\ (me.pc = "done" /\ me.cves # << >>) =>
                   /\ me.cves = OwnFetch(c)
                   /\ me.results = Survivors(me.cves)
            /\ me.pc = "done" => me.ret = Ok(Survivors(OwnFetch(c)))
            /\ me.pc = "idle" => me.results = << >>

\* both calls are in their loops, each has appended a record, and a
\* single-item request was answered in between
C23_Witness ==
    /\ calls["a"].pc = "scoring"
    /\ calls["b"].pc = "scoring"
    /\ Len(calls["a"].results) = 1
    /\ Len(calls["b"].results) = 1
    /\ calls["a"].results[1].cve_id = "CVE-1"
    /\ calls["b"].results[1].cve_id = "CVE-3"
    /\ calls["a"].idx <= Len(calls["a"].cves)
    /\ response.endpoint = "/predict"

\* both calls have returned, with different lists
C23_BothReturnedWitness ==
    /\ calls["a"].pc = "done"
    /\ calls["b"].pc = "done"
    /\ Len(calls["a"].ret.val) = 1
    /\ Len(calls["b"].ret.val) = 2
    /\ calls["a"].ret.val[1].cve_id = "CVE-1"
    /\ calls["b"].ret.val[1].cve_id = "CVE-3"

====
